---- MODULE Spec2Model ----
(***************************************************************************)
(* A model of Dolby_Atmos_scanner.py: the scan-and-cache pipeline          *)
(* (file_signature, load_cache, save_cache, scan_video, scan_folders) and  *)
(* the part of ScannerGUI that starts scans (add_folder, remove_folder,    *)
(* run_scan, _scan).                                                       *)
(*                                                                         *)
(* Python strings that the code inspects character by character (codec,   *)
(* profile, file suffix) are sequences of one-character strings.  Python   *)
(* and JSON values whose type the code depends on are tagged records       *)
(* [t |-> "obj" | "arr" | "tuple" | "str" | "null", v |-> ...].            *)
(***************************************************************************)
EXTENDS Integers, Sequences, FiniteSets, TLC

VARIABLES
    folders,      \* ScannerGUI.folders
    guiResults,   \* ScannerGUI.results
    fs,           \* the file system: os.stat of every path
    disk,         \* the contents of CACHE_FILE
    pc,           \* position of each scan thread
    cache,        \* scan_folders' local `cache` of each thread
    files,        \* scan_folders' local `files`
    idx,          \* number of files the loop of scan_folders has completed
    results,      \* scan_folders' local `results`
    calls,        \* the calls progress_cb has received, in order
    log           \* history: what load_cache, scan_video and save_cache did

vars == <<folders, guiResults, fs, disk, pc, cache, files, idx, results, calls,
          log>>

-----------------------------------------------------------------------------
(* Bounds *)

MaxMtime == 2      \* a file is modified at most MaxMtime - 1 times

\* The scans followed: the first and the second thread run_scan starts. The
\* second may start while the first is scanning, or after it has ended.
Threads == {1, 2}

-----------------------------------------------------------------------------
(* Strings *)

UpperChars == <<"A", "B", "C", "D", "E", "F", "G", "H", "I", "J", "K", "L", "M",
                "N", "O", "P", "Q", "R", "S", "T", "U", "V", "W", "X", "Y", "Z">>
LowerChars == <<"a", "b", "c", "d", "e", "f", "g", "h", "i", "j", "k", "l", "m",
                "n", "o", "p", "q", "r", "s", "t", "u", "v", "w", "x", "y", "z">>

LowerChar(c) ==
    IF \E i \in 1..Len(UpperChars) : UpperChars[i] = c
    THEN LowerChars[CHOOSE i \in 1..Len(UpperChars) : UpperChars[i] = c]
    ELSE c

\* str.lower()
Lower(s) == [i \in 1..Len(s) |-> LowerChar(s[i])]

\* the Python expression `sub in s` on two strings
Contains(sub, s) ==
    \E i \in 1..(Len(s) - Len(sub) + 1) : SubSeq(s, i, i + Len(sub) - 1) = sub

-----------------------------------------------------------------------------
(* Python / JSON values *)

JStr(s)  == [t |-> "str", v |-> s]
JArr(s)  == [t |-> "arr", v |-> s]
JObj(r)  == [t |-> "obj", v |-> r]
JNull    == [t |-> "null", v |-> <<>>]
PyTuple(s) == [t |-> "tuple", v |-> s]
EmptyDict == JObj(<<>>)

\* dict.get(k, default)
DictGet(d, k, default) == IF k \in DOMAIN d.v THEN d.v[k] ELSE default

-----------------------------------------------------------------------------
(* CONFIG *)

Str_mkv  == <<".", "m", "k", "v">>
Str_mp4  == <<".", "m", "p", "4">>
Str_avi  == <<".", "a", "v", "i">>
Str_mov  == <<".", "m", "o", "v">>
Str_ts   == <<".", "t", "s">>
Str_m2ts == <<".", "m", "2", "t", "s">>

VIDEO_EXTENSIONS == {Str_mkv, Str_mp4, Str_avi, Str_mov, Str_ts, Str_m2ts}

-----------------------------------------------------------------------------
(* The strings scan_video compares with *)

Str_atmos   == <<"a", "t", "m", "o", "s">>
Str_joc     == <<"j", "o", "c">>
Str_x       == <<"x">>
Str_truehd  == <<"t", "r", "u", "e", "h", "d">>
Str_eac3    == <<"e", "a", "c", "3">>
Str_e_ac_3  == <<"e", "-", "a", "c", "-", "3">>
Str_dts     == <<"d", "t", "s">>
Str_unknown == <<"u", "n", "k", "n", "o", "w", "n">>

-----------------------------------------------------------------------------
(* file_signature *)

\* os.stat succeeds iff the file is there; the signature f"{size}_{mtime}"
\* is the pair of the two numbers it is formatted from
StatFails(st) == ~st.exists

file_signature(st) == <<st.size, st.mtime>>

-----------------------------------------------------------------------------
(* scan_video *)

\* ClassifyTracks with the codec spelling "e-ac-3" forgotten
ClassifyTracksNoDash(codec, profile, lang) ==
    IF Contains(Str_atmos, profile)
    THEN << PyTuple(<<"Dolby Atmos", lang, codec, profile>>) >>
    ELSE IF codec = Str_eac3 /\ Contains(Str_joc, profile)
    THEN << PyTuple(<<"Dolby Atmos", lang, codec, profile>>) >>
    ELSE IF codec = Str_dts /\ Contains(Str_x, profile)
    THEN << PyTuple(<<"DTS:X", lang, codec, profile>>) >>
    ELSE << >>

\* the if / elif chain of scan_video: the tracks one stream appends
ClassifyTracks(codec, profile, lang) ==
    IF Contains(Str_atmos, profile)
       \/ (codec = Str_truehd /\ Contains(Str_atmos, profile))
    THEN << PyTuple(<<"Dolby Atmos", lang, codec, profile>>) >>
    ELSE IF codec \in {Str_eac3, Str_e_ac_3} /\ Contains(Str_joc, profile)
    THEN << PyTuple(<<"Dolby Atmos", lang, codec, profile>>) >>
    ELSE IF codec = Str_dts /\ Contains(Str_x, profile)
    THEN << PyTuple(<<"DTS:X", lang, codec, profile>>) >>
    ELSE << >>

\* one iteration of `for s in data.get("streams", [])`: s.get on a value that
\* is no dict, .lower() on a value that is no str and .get on tags that are
\* no dict raise
StreamRaises(s) ==
    \/ s.t # "obj"
    \/ DictGet(s, "codec_name", JStr(<<>>)).t # "str"
    \/ DictGet(s, "profile", JStr(<<>>)).t # "str"
    \/ DictGet(s, "tags", EmptyDict).t # "obj"

StreamTracks(s) ==
    LET codec   == Lower(DictGet(s, "codec_name", JStr(<<>>)).v)
        profile == Lower(DictGet(s, "profile", JStr(<<>>)).v)
        lang    == DictGet(DictGet(s, "tags", EmptyDict), "language",
                           JStr(Str_unknown))
    IN  ClassifyTracks(codec, profile, lang)

\* data.get("streams", []) and the iteration over it: data must be a dict,
\* its streams iterable
StreamsRaise(data) ==
    \/ data.t # "obj"
    \/ LET st == DictGet(data, "streams", JArr(<<>>))
       IN  \/ st.t \notin {"arr", "obj", "str"}
           \/ st.t \in {"obj", "str"} /\ DOMAIN st.v # {}
           \/ st.t = "arr" /\ \E i \in 1..Len(st.v) : StreamRaises(st.v[i])

RECURSIVE TracksOf(_)
TracksOf(streams) ==
    IF streams = <<>> THEN <<>>
    ELSE StreamTracks(Head(streams)) \o TracksOf(Tail(streams))

LoopTracks(data) ==
    LET st == DictGet(data, "streams", JArr(<<>>))
    IN  IF st.t = "arr" THEN TracksOf(st.v) ELSE <<>>

\* `key in cache`; the only cache document modelled that is no dict is the
\* empty list, which holds no key
KeyIn(c, key) == c.t = "obj" /\ key \in DOMAIN c.v

\* cache[key]["sig"] raises when the entry is no dict or has no "sig"
EntryRaises(e) == e.t # "obj" \/ "sig" \notin DOMAIN e.v

\* cache[key] = {"sig": sig, "tracks": tracks}
CacheStore(c, key, sig, tracks) ==
    [c EXCEPT !.v = [k \in (DOMAIN c.v) \cup {key} |->
                        IF k = key
                        THEN JObj([sig |-> sig, tracks |-> JArr(tracks)])
                        ELSE c.v[k]]]

\* What the probe of one file can give: subprocess.run or json.loads raises
\* (kind "raise"), or json.loads returns a document (kind "json")
ProbeRaises(out) == out.kind = "raise"

\* scan_video(path, cache), given the stat of the file and what the probe
\* gives if it is run: how the call ends, the tracks it returns, the cache it
\* leaves and whether ffprobe was run
ScanVideoHit(c, key, sig, out) ==
    [status |-> "return", tracks |-> c.v[key].v.tracks.v, cache |-> c,
     probed |-> FALSE]

ScanVideoMiss(c, key, sig, out) ==
    IF ProbeRaises(out)
    THEN [status |-> "return", tracks |-> <<>>, cache |-> c, probed |-> TRUE]
    ELSE IF StreamsRaise(out.data)
    THEN [status |-> "raise", tracks |-> <<>>, cache |-> c, probed |-> TRUE]
    ELSE IF c.t # "obj"
    THEN [status |-> "raise", tracks |-> <<>>, cache |-> c, probed |-> TRUE]
    ELSE [status |-> "return", tracks |-> LoopTracks(out.data),
          cache |-> CacheStore(c, key, sig, LoopTracks(out.data)),
          probed |-> TRUE]

scan_video(key, c, st, out) ==
    IF StatFails(st)
    THEN [status |-> "raise", tracks |-> <<>>, cache |-> c, probed |-> FALSE]
    ELSE LET sig == file_signature(st)
         IN  IF KeyIn(c, key)
             THEN IF EntryRaises(c.v[key])
                  THEN [status |-> "raise", tracks |-> <<>>, cache |-> c,
                        probed |-> FALSE]
                  ELSE IF c.v[key].v.sig = sig
                  THEN IF "tracks" \in DOMAIN c.v[key].v
                       THEN ScanVideoHit(c, key, sig, out)
                       ELSE [status |-> "raise", tracks |-> <<>>, cache |-> c,
                             probed |-> FALSE]
                  ELSE ScanVideoMiss(c, key, sig, out)
             ELSE ScanVideoMiss(c, key, sig, out)

-----------------------------------------------------------------------------
(* load_cache, save_cache *)

\* The cache file: missing, bytes json.load cannot parse, or a JSON document
Absent    == [kind |-> "absent", doc |-> JNull]
Garbage   == [kind |-> "garbage", doc |-> JNull]
JsonFile(doc) == [kind |-> "json", doc |-> doc]

\* json.load raises on a file that is there and is no JSON
LoadRaises(d) == d.kind = "garbage"

\* load_cache(): {} when the file is missing, else the parsed document
load_cache(d) == IF d.kind = "absent" THEN EmptyDict ELSE d.doc

\* json.dump writes a tuple as an array: the tracks scan_video built in this
\* run are written as arrays, and read back as lists
EntryToJson(e) ==
    IF e.t = "obj" /\ "tracks" \in DOMAIN e.v
    THEN [e EXCEPT !.v.tracks.v =
              [i \in 1..Len(e.v.tracks.v) |-> JArr(e.v.tracks.v[i].v)]]
    ELSE e

ToJson(c) ==
    IF c.t = "obj"
    THEN [c EXCEPT !.v = [k \in DOMAIN c.v |-> EntryToJson(c.v[k])]]
    ELSE c

\* save_cache(cache) when open and json.dump succeed
save_cache(c) == JsonFile(ToJson(c))

-----------------------------------------------------------------------------
(* The directory tree the folders are chosen from, in rglob's order *)

PathA == "/m/a.MKV"
PathT == "/m/notes.txt"
PathB == "/m/sub/b.mp4"

Tree == << [path |-> PathA, suffix |-> <<".", "M", "K", "V">>,
            under |-> {"/m"}],
           [path |-> PathT, suffix |-> <<".", "t", "x", "t">>,
            under |-> {"/m"}],
           [path |-> PathB, suffix |-> <<".", "m", "p", "4">>,
            under |-> {"/m", "/m/sub"}] >>

Paths == {Tree[i].path : i \in 1..Len(Tree)}
\* the changes of the file system followed: the first video file is rewritten,
\* the second is deleted
Modifiable == {PathA}
Deletable == {PathB}
FolderChoices == {"/m", "/m/sub"}

RECURSIVE SeqMap(_, _)
\* the paths of a sequence of directory entries
SeqMap(entries, i) ==
    IF i > Len(entries) THEN <<>>
    ELSE <<entries[i].path>> \o SeqMap(entries, i + 1)

\* Path(folder).rglob("*") filtered by f.suffix.lower() in VIDEO_EXTENSIONS
IsVideo(e) == Lower(e.suffix) \in VIDEO_EXTENSIONS

RGlobVideos(folder, fsys) ==
    SeqMap(SelectSeq(Tree, LAMBDA e : /\ folder \in e.under
                                      /\ fsys[e.path].exists
                                      /\ IsVideo(e)), 1)

RECURSIVE Enumerate(_, _)
\* files.extend(...) for every folder of the list
Enumerate(fl, fsys) ==
    IF fl = <<>> THEN <<>>
    ELSE RGlobVideos(Head(fl), fsys) \o Enumerate(Tail(fl), fsys)

-----------------------------------------------------------------------------
(* What ffprobe can print for a file *)

Str_TrueHD  == <<"T", "r", "u", "e", "H", "D">>
Str_AtmosProfile == <<"D", "o", "l", "b", "y", " ", "T", "r", "u", "e", "H", "D",
                      " ", "+", " ", "D", "o", "l", "b", "y", " ", "A", "t", "m",
                      "o", "s">>
Str_aac     == <<"a", "a", "c">>
Str_LC      == <<"L", "C">>
Str_DTSXProfile == <<"D", "T", "S", "-", "H", "D", " ", "M", "A", " ", "+", " ",
                     "D", "T", "S", ":", "X">>
Str_eng     == <<"e", "n", "g">>

Stream(codec, profile) ==
    JObj([codec_name |-> JStr(codec), profile |-> JStr(profile)])
StreamLang(codec, profile, lang) ==
    JObj([codec_name |-> JStr(codec), profile |-> JStr(profile),
          tags |-> JObj([language |-> JStr(lang)])])

\* no executable, or output that is no JSON: subprocess.run / json.loads raise
ProbeFailed   == [name |-> "failed", kind |-> "raise", data |-> JNull]
\* prints [] : JSON, but no object
ProbeNoObject == [name |-> "noobject", kind |-> "json", data |-> JArr(<<>>)]
\* a stream whose codec_name is null
ProbeNullCodec == [name |-> "nullcodec", kind |-> "json", data |->
                      JObj([streams |-> JArr(<< JObj([codec_name |-> JNull]) >>)])]
\* prints {} : no streams
ProbeEmpty    == [name |-> "empty", kind |-> "json", data |-> EmptyDict]
ProbeAtmos    == [name |-> "atmos", kind |-> "json", data |->
                      JObj([streams |-> JArr(<<
                          StreamLang(Str_TrueHD, Str_AtmosProfile, Str_eng) >>)])]
ProbeOutputs == {ProbeFailed, ProbeNoObject, ProbeNullCodec, ProbeEmpty,
                 ProbeAtmos}

\* the outputs that are a failure of the probe: no output to parse, or JSON
\* of another shape than {"streams": [{"codec_name": str, "profile": str,
\* "tags": {...}}]}
ProbeFailureNames == {"failed", "noobject", "nullcodec"}

-----------------------------------------------------------------------------
(* State *)

NoProbe == [name |-> "none", kind |-> "none", data |-> JNull]

\* One entry of the history of a thread: the call, how it ended (for run_scan:
\* whether another scan was running when the thread was started), and for
\* scan_video the file, its signature, whether its cache entry was there with
\* another signature (stale), the probe output if ffprobe was run, the tracks
\* returned and the signature the cache holds for the file afterwards
NoEvent == [op |-> "none", status |-> "", path |-> "", sig |-> <<>>,
            stale |-> FALSE, probed |-> FALSE, out |-> NoProbe,
            tracks |-> <<>>, stored |-> <<>>]

Event(op, status) == [NoEvent EXCEPT !.op = op, !.status = status]

\* cache files a scan can find: none, a truncated one, a document that is no
\* object, an object with an entry that has no "sig"
InitialDisks ==
    { Absent, Garbage, JsonFile(JArr(<<>>)),
      JsonFile(JObj([k \in {PathA} |-> JObj([tracks |-> JArr(<<>>)])])) }

Running(t) == pc[t] \in {"start", "scan"}

Init ==
    /\ folders = <<>>
    /\ guiResults = <<>>
    /\ fs = [p \in Paths |-> [exists |-> TRUE, size |-> 1, mtime |-> 1]]
    /\ disk \in InitialDisks
    /\ pc = [t \in Threads |-> "idle"]
    /\ cache = [t \in Threads |-> EmptyDict]
    /\ files = [t \in Threads |-> <<>>]
    /\ idx = [t \in Threads |-> 0]
    /\ results = [t \in Threads |-> <<>>]
    /\ calls = [t \in Threads |-> <<>>]
    /\ log = [t \in Threads |-> <<>>]

-----------------------------------------------------------------------------
(* ScannerGUI *)

\* The folders the dialog of add_folder returns: the subfolder is picked
\* first, its parent after it
Pickable(fl) == IF fl = <<>> THEN {"/m/sub"} ELSE FolderChoices

\* add_folder: the folder the dialog returns is appended unless already listed
AddFolder(f) ==
    /\ f \notin {folders[i] : i \in 1..Len(folders)}
    /\ folders' = Append(folders, f)
    /\ UNCHANGED <<guiResults, fs, disk, pc, cache, files, idx, results, calls,
                   log>>

\* run_scan with no folder: a warning, no thread
RunScanNoFolder ==
    /\ folders = <<>>
    /\ UNCHANGED vars

\* run_scan: threading.Thread(target=self._scan).start(), whether or not an
\* earlier thread is still scanning
RunScan(t) ==
    /\ folders # <<>>
    /\ pc[t] = "idle"
    /\ \A u \in Threads : u < t => pc[u] # "idle"
    /\ pc' = [pc EXCEPT ![t] = "start"]
    /\ log' = [log EXCEPT ![t] = Append(@, Event("run_scan",
                   IF \E u \in Threads : Running(u) THEN "concurrent"
                   ELSE "alone"))]
    /\ UNCHANGED <<folders, guiResults, fs, disk, cache, files, idx, results,
                   calls>>

-----------------------------------------------------------------------------
(* _scan and scan_folders, one thread *)

\* _scan up to the loop of scan_folders: self.results.clear(), load_cache(),
\* the enumeration of the files
BeginScan(t) ==
    /\ pc[t] = "start"
    /\ guiResults' = <<>>
    /\ IF LoadRaises(disk)
       THEN /\ pc' = [pc EXCEPT ![t] = "failed"]
            /\ log' = [log EXCEPT ![t] = Append(@, Event("load_cache", "raise"))]
            /\ UNCHANGED <<cache, files>>
       ELSE /\ pc' = [pc EXCEPT ![t] = "scan"]
            /\ cache' = [cache EXCEPT ![t] = load_cache(disk)]
            /\ files' = [files EXCEPT ![t] = Enumerate(folders, fs)]
            /\ log' = [log EXCEPT ![t] = Append(@, Event("load_cache", "return"))]
    /\ UNCHANGED <<folders, fs, disk, idx, results, calls>>

\* Rows with only the first track of a file appended
RowsFirstTrackOnly(path, tracks) ==
    [i \in 1..(IF tracks = <<>> THEN 0 ELSE 1) |-> <<path>> \o tracks[i].v]

\* results.append((str(file), *t)) for every track
Rows(path, tracks) == [i \in 1..Len(tracks) |-> <<path>> \o tracks[i].v]

\* ProgressArgs with enumerate counting from 0
ProgressArgsZeroBased(i, total) == <<i - 1, total>>

\* progress_cb(i, total), i from enumerate(files, 1)
ProgressArgs(i, total) == <<i, total>>

\* the signature the cache holds for a path, <<>> when it holds none
StoredSig(c, path) ==
    IF KeyIn(c, path) /\ ~EntryRaises(c.v[path]) THEN c.v[path].v.sig ELSE <<>>

\* one iteration of the loop of scan_folders: scan_video, the rows, the
\* progress callback; an exception of scan_video ends the thread
ScanFile(t, out) ==
    /\ pc[t] = "scan"
    /\ idx[t] < Len(files[t])
    /\ LET path == files[t][idx[t] + 1]
           r    == scan_video(path, cache[t], fs[path], out)
           sig  == IF StatFails(fs[path]) THEN <<>> ELSE file_signature(fs[path])
           e    == [Event("scan_video", r.status) EXCEPT
                      !.path = path,
                      !.sig = sig,
                      !.stale = /\ sig # <<>>
                                /\ StoredSig(cache[t], path) \notin {<<>>, sig},
                      !.probed = r.probed,
                      !.out = IF r.probed THEN out ELSE NoProbe,
                      !.tracks = r.tracks,
                      !.stored = StoredSig(r.cache, path) ]
       IN  /\ log' = [log EXCEPT ![t] = Append(@, e)]
           /\ IF r.status = "raise"
              THEN /\ pc' = [pc EXCEPT ![t] = "failed"]
                   /\ UNCHANGED <<cache, idx, results, calls>>
              ELSE /\ cache' = [cache EXCEPT ![t] = r.cache]
                   /\ results' = [results EXCEPT ![t] = @ \o Rows(path, r.tracks)]
                   /\ calls' = [calls EXCEPT ![t] =
                          Append(@, ProgressArgs(idx[t] + 1, Len(files[t])))]
                   /\ idx' = [idx EXCEPT ![t] = @ + 1]
                   /\ UNCHANGED pc
    /\ UNCHANGED <<folders, guiResults, fs, disk, files>>

\* save_cache(cache) succeeds, scan_folders returns, self.results = ...
SaveCache(t) ==
    /\ pc[t] = "scan"
    /\ idx[t] = Len(files[t])
    /\ disk' = save_cache(cache[t])
    /\ guiResults' = results[t]
    /\ pc' = [pc EXCEPT ![t] = "done"]
    /\ log' = [log EXCEPT ![t] = Append(@, Event("save_cache", "return"))]
    /\ UNCHANGED <<folders, fs, cache, files, idx, results, calls>>

\* save_cache(cache) raises: open fails (the file is as it was) or the write
\* fails after open truncated the file
SaveCacheFails(t, truncated) ==
    /\ pc[t] = "scan"
    /\ idx[t] = Len(files[t])
    /\ disk' = IF truncated THEN Garbage ELSE disk
    /\ pc' = [pc EXCEPT ![t] = "failed"]
    /\ log' = [log EXCEPT ![t] = Append(@, Event("save_cache", "raise"))]
    /\ UNCHANGED <<folders, guiResults, fs, cache, files, idx, results, calls>>

-----------------------------------------------------------------------------
(* The file system *)

\* a video file is rewritten: a new modification time
Modify(p) ==
    /\ fs[p].exists
    /\ fs[p].mtime < MaxMtime
    /\ fs' = [fs EXCEPT ![p].mtime = @ + 1]
    /\ UNCHANGED <<folders, guiResults, disk, pc, cache, files, idx, results,
                   calls, log>>

\* a video file is deleted
Delete(p) ==
    /\ fs[p].exists
    /\ fs' = [fs EXCEPT ![p].exists = FALSE]
    /\ UNCHANGED <<folders, guiResults, disk, pc, cache, files, idx, results,
                   calls, log>>

-----------------------------------------------------------------------------

Next ==
    \/ \E f \in Pickable(folders) : AddFolder(f)
    \/ RunScanNoFolder
    \/ \E t \in Threads : RunScan(t)
    \/ \E t \in Threads : BeginScan(t)
    \/ \E t \in Threads : \E out \in ProbeOutputs : ScanFile(t, out)
    \/ \E t \in Threads : SaveCache(t)
    \/ \E t \in Threads : \E truncated \in BOOLEAN : SaveCacheFails(t, truncated)
    \/ \E p \in Modifiable : Modify(p)
    \/ \E p \in Deletable : Delete(p)

Spec == Init /\ [][Next]_vars

-----------------------------------------------------------------------------
(* Reading the history *)

Last(s) == s[Len(s)]

\* the scan_video calls of a thread, as indices of its history
ScanEvents(t) == {i \in 1..Len(log[t]) : log[t][i].op = "scan_video"}

\* the last scan_video call of a thread on a path
LastScanOf(t, path) ==
    {i \in ScanEvents(t) : /\ log[t][i].path = path
                           /\ \A j \in ScanEvents(t) :
                                 log[t][j].path = path => j <= i}

\* tracks as values: a tuple and the list json.load gives for it are the same
TrackValues(tracks) == [i \in 1..Len(tracks) |-> tracks[i].v]

-----------------------------------------------------------------------------
(* C1 *)

\* C1: when a scan has ended and the next scan starts after it, a file that
\* has the same signature in both is not probed by the second scan, and the
\* second scan reports the tracks the first reported for it, whatever the
\* outcome of the first scan's probe was.
C1_UnchangedFileNotProbedAgain ==
    (pc[1] = "done" /\ log[2] # <<>> /\ log[2][1].status = "alone") =>
        \A i \in ScanEvents(2) : \A j \in LastScanOf(1, log[2][i].path) :
            (log[2][i].sig # <<>> /\ log[1][j].sig = log[2][i].sig) =>
                /\ ~log[2][i].probed
                /\ log[2][i].status = "return"
                /\ TrackValues(log[2][i].tracks) = TrackValues(log[1][j].tracks)

-----------------------------------------------------------------------------
(* C3 *)

\* C3: when scan_video processes a file whose signature differs from the one
\* stored in its cache entry and returns, the cached tracks were not reused
\* (ffprobe was run) and the entry now stores the current signature.
C3_StaleEntryOverwritten ==
    \A t \in Threads : \A i \in ScanEvents(t) :
        (log[t][i].stale /\ log[t][i].status = "return") =>
            /\ log[t][i].probed
            /\ log[t][i].stored = log[t][i].sig

-----------------------------------------------------------------------------
(* C4 *)

\* C4: whatever way the probe of a file fails (no executable, output that is
\* no JSON, JSON of another shape), scan_video returns an empty track sequence
\* and raises nothing.
C4_ProbeFailureYieldsEmpty ==
    \A t \in Threads : \A i \in ScanEvents(t) :
        (log[t][i].probed /\ log[t][i].out.name \in ProbeFailureNames) =>
            /\ log[t][i].status = "return"
            /\ log[t][i].tracks = <<>>

-----------------------------------------------------------------------------
(* C5 *)

\* C5: when the probe of a file fails, scan_video returns no tracks and
\* writes the cache entry {current signature, no tracks} for the file.
C5_FailedProbeIsCached ==
    \A t \in Threads : \A i \in ScanEvents(t) :
        (log[t][i].probed /\ log[t][i].out.name = "failed") =>
            /\ log[t][i].status = "return"
            /\ log[t][i].tracks = <<>>
            /\ log[t][i].stored = log[t][i].sig

-----------------------------------------------------------------------------
(* C6 *)

\* C6: when the signature of a file cannot be computed, the file is skipped:
\* scan_video raises nothing into scan_folders, which goes on with the next
\* file, saves the cache and returns.
C6_UnreadableFileSkipped ==
    \A t \in Threads : \A i \in ScanEvents(t) :
        log[t][i].sig = <<>> => /\ log[t][i].status = "return"
                                /\ pc[t] # "failed"

-----------------------------------------------------------------------------
(* C8 *)

\* C8: load_cache never raises, whatever the cache file holds.
C8_LoadNeverRaises ==
    \A t \in Threads : \A i \in 1..Len(log[t]) :
        log[t][i].op = "load_cache" => log[t][i].status = "return"

-----------------------------------------------------------------------------
(* C9 *)

\* C9: when save_cache fails at the end of a scan (and no other scan was
\* started), the rows the scan computed are still handed to the caller:
\* ScannerGUI.results holds them.
C9_ResultsSurviveSaveFailure ==
    (/\ pc[1] = "failed"
     /\ Last(log[1]).op = "save_cache"
     /\ pc[2] = "idle") => guiResults = results[1]

-----------------------------------------------------------------------------
(* C10 *)

\* C10: no two scans are between their load_cache and their save_cache at the
\* same time.
C10_NoConcurrentScans ==
    \A t \in Threads : \A u \in Threads :
        (t # u /\ pc[t] = "scan") => pc[u] # "scan"

-----------------------------------------------------------------------------
(* Classification of one stream: the inputs *)

Str_EAC3 == <<"E", "A", "C", "3">>
Str_E_AC_3 == <<"E", "-", "A", "C", "-", "3">>
Str_DTS == <<"D", "T", "S">>
Str_ac3 == <<"a", "c", "3">>
Str_p_truehd_atmos ==
    <<"d", "o", "l", "b", "y", " ", "t", "r", "u", "e", "h", "d", " ", "a",
      "t", "m", "o", "s">>
Str_p_ddp_joc == <<"d", "d", "p", " ", "j", "o", "c">>
Str_p_DDP_JOC ==
    <<"D", "o", "l", "b", "y", " ", "D", "i", "g", "i", "t", "a", "l", " ",
      "P", "l", "u", "s", " ", "+", " ", "J", "O", "C">>
Str_p_dts_x == <<"d", "t", "s", "-", "x">>
Str_p_DTS_HD_MA == <<"D", "T", "S", "-", "H", "D", " ", "M", "A">>
Str_p_DTS_Express == <<"D", "T", "S", " ", "E", "x", "p", "r", "e", "s", "s">>
Str_p_lc == <<"l", "c">>
Str_p_DTSX_ATMOS ==
    <<"D", "T", "S", ":", "X", " ", "+", " ", "A", "T", "M", "O", "S">>

\* codec_name and profile values, in the case ffprobe may print them
ClassifyCodecs ==
    {Str_truehd, Str_TrueHD, Str_eac3, Str_EAC3, Str_e_ac_3, Str_E_AC_3,
     Str_dts, Str_DTS, Str_aac, Str_ac3}

ClassifyProfiles ==
    {Str_p_truehd_atmos, Str_AtmosProfile, Str_p_ddp_joc, Str_p_DDP_JOC,
     Str_p_dts_x, Str_DTSXProfile, Str_p_DTS_HD_MA, Str_p_DTS_Express,
     Str_p_lc, Str_LC, Str_p_DTSX_ATMOS, <<>>}

\* ffprobe prints one audio stream with this codec_name and profile, without
\* or with a language tag
OneStream(codec, profile) ==
    [name |-> "stream", kind |-> "json",
     data |-> JObj([streams |-> JArr(<< Stream(codec, profile) >>)])]

OneStreamLang(codec, profile) ==
    [name |-> "stream", kind |-> "json",
     data |-> JObj([streams |-> JArr(<< StreamLang(codec, profile, Str_eng) >>)])]

ClassifyOutputs ==
    {OneStream(c, p) : c \in ClassifyCodecs, p \in ClassifyProfiles}
    \cup {OneStreamLang(c, p) : c \in ClassifyCodecs, p \in ClassifyProfiles}

\* One scan of the folder /m/sub, which holds one video file, with no cache
\* file: scan_video classifies the one stream ffprobe prints
InitClassify ==
    /\ folders = <<"/m/sub">>
    /\ guiResults = <<>>
    /\ fs = [p \in Paths |-> [exists |-> TRUE, size |-> 1, mtime |-> 1]]
    /\ disk = Absent
    /\ pc = [t \in Threads |-> "idle"]
    /\ cache = [t \in Threads |-> EmptyDict]
    /\ files = [t \in Threads |-> <<>>]
    /\ idx = [t \in Threads |-> 0]
    /\ results = [t \in Threads |-> <<>>]
    /\ calls = [t \in Threads |-> <<>>]
    /\ log = [t \in Threads |-> <<>>]

NextClassify ==
    \/ RunScan(1)
    \/ BeginScan(1)
    \/ \E out \in ClassifyOutputs : ScanFile(1, out)
    \/ SaveCache(1)

SpecClassify == InitClassify /\ [][NextClassify]_vars

-----------------------------------------------------------------------------
(* C2 *)

\* the priority table of the classifier, on the strings as ffprobe prints them
TableLabel(codec, profile) ==
    LET c == Lower(codec)
        p == Lower(profile)
    IN  IF Contains(Str_atmos, p) THEN "Dolby Atmos"
        ELSE IF c \in {Str_eac3, Str_e_ac_3} /\ Contains(Str_joc, p)
             THEN "Dolby Atmos"
        ELSE IF c = Str_dts /\ Contains(Str_x, p) THEN "DTS:X"
        ELSE "none"

\* the examples of the specification
TableExamples ==
    { <<Str_truehd, Str_p_truehd_atmos, "Dolby Atmos">>,
      <<Str_eac3, Str_p_ddp_joc, "Dolby Atmos">>,
      <<Str_dts, Str_p_dts_x, "DTS:X">>,
      <<Str_aac, Str_p_lc, "none">> }

\* the label of the tracks a scan_video call appended
LabelOf(tracks) == IF tracks = <<>> THEN "none" ELSE tracks[1].v[1]

\* the codec_name and the profile of the one stream of a probe output
RawCodec(out)   == out.data.v.streams.v[1].v.codec_name.v
RawProfile(out) == out.data.v.streams.v[1].v.profile.v

\* C2: for every (codec, profile) of the input set, scan_video returns, having
\* appended at most one track, and the track's label is the one the priority
\* table gives for the pair compared case-insensitively (none: no track); the
\* four examples get Dolby Atmos, Dolby Atmos, DTS:X and nothing.
C2_ClassificationFollowsTable ==
    \A t \in Threads : \A i \in ScanEvents(t) :
        log[t][i].out.name = "stream" =>
            LET e == log[t][i]
            IN  /\ e.status = "return"
                /\ Len(e.tracks) <= 1
                /\ LabelOf(e.tracks) = TableLabel(RawCodec(e.out), RawProfile(e.out))
                /\ \A x \in TableExamples :
                      (RawCodec(e.out) = x[1] /\ RawProfile(e.out) = x[2])
                          => LabelOf(e.tracks) = x[3]

\* a stream E-AC-3 / "Dolby Digital Plus + JOC" was classified Dolby Atmos
C2_Witness ==
    \E i \in ScanEvents(1) :
        /\ log[1][i].out.name = "stream"
        /\ RawCodec(log[1][i].out) = Str_E_AC_3
        /\ RawProfile(log[1][i].out) = Str_p_DDP_JOC
        /\ Len(log[1][i].tracks) = 1
        /\ LabelOf(log[1][i].tracks) = "Dolby Atmos"

-----------------------------------------------------------------------------
(* C7 *)

-----------------------------------------------------------------------------
(* C11 *)

\* the load_cache and save_cache calls of a thread, as indices of its history
LoadEvents(t) == {i \in 1..Len(log[t]) : log[t][i].op = "load_cache"}

SaveEvents(t) == {i \in 1..Len(log[t]) : log[t][i].op = "save_cache"}

-----------------------------------------------------------------------------
(* Scans of files with no, one and two qualifying tracks *)

\* one AAC stereo stream: no track qualifies
ProbeAac == [name |-> "aac", kind |-> "json", data |->
                JObj([streams |-> JArr(<< StreamLang(Str_aac, Str_LC, Str_eng) >>)])]
\* a TrueHD Atmos stream, an AAC stream and a DTS:X stream without language
ProbeTwo == [name |-> "two", kind |-> "json", data |->
                JObj([streams |-> JArr(<<
                    StreamLang(Str_TrueHD, Str_AtmosProfile, Str_eng),
                    StreamLang(Str_aac, Str_LC, Str_eng),
                    Stream(Str_DTS, Str_DTSXProfile) >>)])]

JoinOutputs == {ProbeFailed, ProbeAac, ProbeAtmos, ProbeTwo}

InitJoin ==
    /\ folders = <<>>
    /\ guiResults = <<>>
    /\ fs = [p \in Paths |-> [exists |-> TRUE, size |-> 1, mtime |-> 1]]
    /\ disk = Absent
    /\ pc = [t \in Threads |-> "idle"]
    /\ cache = [t \in Threads |-> EmptyDict]
    /\ files = [t \in Threads |-> <<>>]
    /\ idx = [t \in Threads |-> 0]
    /\ results = [t \in Threads |-> <<>>]
    /\ calls = [t \in Threads |-> <<>>]
    /\ log = [t \in Threads |-> <<>>]

NextJoin ==
    \/ \E f \in FolderChoices : AddFolder(f)
    \/ \E t \in Threads : RunScan(t)
    \/ \E t \in Threads : BeginScan(t)
    \/ \E t \in Threads : \E out \in JoinOutputs : ScanFile(t, out)
    \/ \E t \in Threads : SaveCache(t)

SpecJoin == InitJoin /\ [][NextJoin]_vars

-----------------------------------------------------------------------------
(* C12 *)

\* the rows of one scan_video call: the path, then the four fields of a track
RowsOfCall(e) ==
    [i \in 1..Len(e.tracks) |->
        <<e.path, e.tracks[i].v[1], e.tracks[i].v[2], e.tracks[i].v[3],
          e.tracks[i].v[4]>>]

\* the rows of the scan_video calls of a history that returned, in its order
RECURSIVE JoinOf(_)
JoinOf(l) ==
    IF l = <<>> THEN <<>>
    ELSE LET e == l[Len(l)]
             front == JoinOf(SubSeq(l, 1, Len(l) - 1))
         IN  IF e.op = "scan_video" /\ e.status = "return"
             THEN front \o RowsOfCall(e)
             ELSE front

\* the paths of the scan_video calls of a history that returned, in its order
RECURSIVE PathsOf(_)
PathsOf(l) ==
    IF l = <<>> THEN <<>>
    ELSE LET e == l[Len(l)]
             front == PathsOf(SubSeq(l, 1, Len(l) - 1))
         IN  IF e.op = "scan_video" /\ e.status = "return"
             THEN Append(front, e.path)
             ELSE front

\* the labels of the tracks a probe output classifies to
LabelsOfOutput(name) ==
    IF name = "atmos" THEN <<"Dolby Atmos">>
    ELSE IF name = "two" THEN <<"Dolby Atmos", "DTS:X">>
    ELSE <<>>

\* C12: the rows of a scan are the rows of its scan_video calls, one call for
\* every entry of the file list in the order of the list (a file listed k
\* times has k calls, nothing is deduplicated), every call giving one row
\* <<path, label, language, codec, profile>> for each of its tracks and none
\* when it has none; the tracks of a call are those the probe output
\* classifies to on a miss and those the cache holds on a hit, so that a file
\* whose tracks were cached contributes the same rows again; a scan that has
\* returned has a call for every entry of the list and hands exactly these
\* rows to the caller.
C12_RowsAreTheJoin ==
    \A t \in Threads :
        /\ results[t] = JoinOf(log[t])
        /\ PathsOf(log[t]) = SubSeq(files[t], 1, idx[t])
        /\ \A i \in ScanEvents(t) :
              log[t][i].status = "return" /\ log[t][i].probed =>
                  [k \in 1..Len(log[t][i].tracks) |-> log[t][i].tracks[k].v[1]]
                      = LabelsOfOutput(log[t][i].out.name)
        /\ \A i, j \in ScanEvents(t) :
              (/\ i < j
               /\ log[t][i].path = log[t][j].path
               /\ log[t][i].status = "return"
               /\ log[t][j].status = "return"
               /\ log[t][i].stored # <<>>
               /\ log[t][i].stored = log[t][j].sig)
                  => /\ ~log[t][j].probed
                     /\ TrackValues(log[t][j].tracks) = TrackValues(log[t][i].tracks)
        /\ pc[t] = "done" => PathsOf(log[t]) = files[t]

\* a scan of <<b, a, b>> has returned: b was probed and has two tracks, a was
\* probed and has none, b was then found in the cache; four rows, all of b
C12_Witness ==
    \E t \in Threads :
        /\ pc[t] = "done"
        /\ files[t] = <<PathB, PathA, PathB>>
        /\ \E i, j, k \in ScanEvents(t) :
              /\ i < j /\ j < k
              /\ log[t][i].out.name = "two"
              /\ log[t][j].out.name = "aac"
              /\ ~log[t][k].probed
        /\ Len(results[t]) = 4
        /\ \A r \in 1..4 : results[t][r][1] = PathB
        /\ results[t][1] = results[t][3]
        /\ results[t][2] = results[t][4]
        /\ results[t][1][2] = "Dolby Atmos"
        /\ results[t][2][2] = "DTS:X"

====
